---- MODULE Spec2Model ----
(***************************************************************************)
(* Model of whisper-stream's capture pipeline (src/main.py):               *)
(*   AudioProcessor       the frame queue, is_silent, save_audio           *)
(*   TranscriptionThread  run(), stop(), set_language(), set_threshold()   *)
(*   MainWindow           toggle_transcription(), update_*                 *)
(*                                                                         *)
(* Three contexts interleave: the GUI thread (toggle clicks and             *)
(* reconfiguration), the QThread executing run(), and the audio engine     *)
(* thread invoking audio_callback while an InputStream is open.            *)
(*                                                                         *)
(* Numbers.  A threshold is held in millionths (0.01 is 10000), a frame is *)
(* represented by its peak |sample| on the raw int16 scale 0..32768, so    *)
(*   peak/32768.0 < threshold   is   peak * 1000000 < threshold * 32768.   *)
(* peak/32768.0 is exact in float32, and v/5000.0 coincides with a         *)
(* multiple of 1/32768 only for v = 0, so the integer comparison decides   *)
(* exactly as the floating-point one does.                                 *)
(***************************************************************************)
EXTENDS Integers, Sequences, FiniteSets, TLC

(* ---------------- program constants ---------------- *)

\* AudioProcessor.__init__
sample_rate == 16000
chunk_size == 1024
silence_limit == 2
\* TranscriptionThread.__init__: self.threshold = 0.01, in millionths
InitialThreshold == 10000
\* run(): len(audio_buffer) > 50, len(audio_buffer) > 2
MaxBufferLen == 50
MinBufferLen == 2
\* set_threshold: threshold / 5000.0
ThresholdDivisor == 5000
\* audio_chunk.astype(np.float32) / 32768.0
FullScale == 32768
\* thresholds are held in millionths
Million == 1000000
\* create_controls: self.threshold_spin.setValue(50)
DefaultUiValue == 50

(* ---------------- bounds of the model ---------------- *)

\* GUI events (toggle clicks, language and threshold changes) per behaviour
MaxUiEvents == 3
\* frames the audio engine may be ahead of the capture loop; the device also
\* delivers this many frames after the first one that can complete a segment
MaxQueue == 2

(* ---------------- inputs ---------------- *)

\* The audio the device delivers, by the name of a stream; frame n of the
\* stream has the peak ScriptPeak(s, n).
\*   quiet     every frame peaks at 200/32768 (0.0061): silent under 0.01
\*   loud      every frame peaks at 2000/32768 (0.061): never silent
\*   scenario  40 frames peaking at 2000, then 35 frames of digital silence
\*   blip      digital silence, but for frame 11, which peaks at 2000
ScriptPeak(s, n) ==
    CASE s = "quiet" -> 200
      [] s = "loud" -> 2000
      [] s = "scenario" -> IF n <= 40 THEN 2000 ELSE 0
      [] s = "blip" -> IF n = 11 THEN 2000 ELSE 0
      [] OTHER -> 0

\* The first frame count at which a run of silent frames completes a segment:
\* the least c with c > silence_limit * (sample_rate / chunk_size).
FirstSilenceCompletion == (silence_limit * sample_rate) \div chunk_size + 1

\* How many frames the device delivers in a behaviour.
DeviceFrames(s) ==
    CASE s = "quiet" -> FirstSilenceCompletion + MaxQueue
      [] s = "loud" -> MaxBufferLen + 1 + MaxQueue
      [] s = "scenario" -> 40 + 35
      [] s = "blip" -> MaxBufferLen + 1 + MaxQueue
      [] OTHER -> 0

Scripts == {"quiet"}
\* The streams fed to the accumulator when the session is only started
AccScripts == {"quiet", "loud", "scenario", "blip"}
\* QSpinBox.setRange(0, 100)
UiRange == 0..100
Languages == {"en", "ja"}
UiValues == {0, 50, 100}
Runs == 1..MaxUiEvents

NoFrame == [seq |-> 0, run |-> 0]
NoFile == -1

VARIABLES
    is_running,      \* TranscriptionThread.is_running
    language,        \* TranscriptionThread.language
    threshold,       \* TranscriptionThread.threshold, in millionths
    audio_queue,     \* AudioProcessor.audio_queue
    toggle_button,   \* MainWindow.toggle_button text
    run,             \* per execution of run(): position, stream and locals
    nruns,           \* executions of run() started so far
    emitted,         \* events emitted on transcription_signal / error_signal
    temp_files,      \* temporary files present in temp_dir
    n_captured,      \* frames delivered by the device so far
    appended,        \* every frame appended to an audio_buffer, in order
    script,          \* the audio stream of this behaviour
    ui_left          \* GUI events the behaviour still admits

vars == <<is_running, language, threshold, audio_queue, toggle_button, run,
          nruns, emitted, temp_files, n_captured, appended, script, ui_left>>

EventKinds == {"Started listening...", "Stopped listening.", "text",
               "Transcription error", "Processing error", "Audio system error"}

\* A run() that has not started: the locals do not exist yet.
RunInit ==
    [pc |-> "none", stream |-> FALSE, audio_buffer |-> <<>>,
     silence_counter |-> 0, audio_chunk |-> NoFrame, temp_file |-> NoFile,
     call_language |-> "", response |-> "", stop_phase |-> ""]

RunDone == [RunInit EXCEPT !.pc = "done"]

\* Positions at which run() is executing.
ActivePc == {"starting", "open", "loop", "get", "classify", "save", "call",
             "backend", "handle"}

Init ==
    /\ is_running = FALSE
    /\ language = "en"
    /\ threshold = InitialThreshold
    /\ audio_queue = <<>>
    /\ toggle_button = "Start Transcription"
    /\ run = [r \in Runs |-> RunInit]
    /\ nruns = 0
    /\ emitted = [k \in EventKinds |-> 0]
    /\ temp_files = {}
    /\ n_captured = 0
    /\ appended = <<>>
    /\ script \in Scripts
    /\ ui_left = MaxUiEvents

(* ---------------- pure functions ---------------- *)

is_silent_NonStrict(peak, thr) == peak * Million <= thr * FullScale

\* AudioProcessor.is_silent on a frame of the given raw peak
is_silent(peak, thr) == peak * Million < thr * FullScale

set_threshold_value_IntDiv(v) == (v \div ThresholdDivisor) * Million

\* TranscriptionThread.set_threshold: the value stored for a UI value
set_threshold_value(v) == (v * Million) \div ThresholdDivisor

IsComplete_Eager(counter, buffer) ==
    \/ counter >= silence_limit
    \/ Len(buffer) > MaxBufferLen

IsComplete_AtCap(counter, buffer) ==
    \/ counter * chunk_size > silence_limit * sample_rate
    \/ Len(buffer) >= MaxBufferLen

\* The completion test of run()
IsComplete(counter, buffer) ==
    \/ counter * chunk_size > silence_limit * sample_rate
    \/ Len(buffer) > MaxBufferLen

Peak(f) == ScriptPeak(script, f.seq)

\* datetime.now().strftime("%Y%m%d_%H%M%S"): the device clock in whole seconds
Timestamp == (n_captured * chunk_size) \div sample_rate

Emit(e, kind) == [e EXCEPT ![kind] = @ + 1]

(* ---------------- the queue ---------------- *)

QueuePut_Lifo(q, f) == <<f>> \o q
QueuePut(q, f) == Append(q, f)

(* ---------------- the QThread ---------------- *)

ThreadIsRunning_Never == FALSE
\* QThread.isRunning(): some run() is executing
ThreadIsRunning == \E r \in Runs : run[r].pc \in ActivePc

\* QThread.start(): does nothing when the thread is already running
ThreadStart ==
    IF ThreadIsRunning
    THEN UNCHANGED <<run, nruns>>
    ELSE /\ nruns' = nruns + 1
         /\ run' = [run EXCEPT ![nruns + 1].pc = "starting"]

(* ---------------- GUI thread ---------------- *)

\* What stop() means to a run(): it is noted when it arrives during queue.get
StopPhase(rr) == IF rr.pc = "get" THEN "in_get" ELSE rr.stop_phase

\* MainWindow.toggle_transcription
Toggle ==
    /\ ui_left > 0
    /\ ui_left' = ui_left - 1
    /\ IF ~is_running
       THEN /\ ThreadStart
            /\ toggle_button' = "Stop Transcription"
            /\ UNCHANGED is_running
       ELSE /\ is_running' = FALSE
            /\ run' = [r \in Runs |-> [run[r] EXCEPT !.stop_phase = StopPhase(run[r])]]
            /\ toggle_button' = "Start Transcription"
            /\ UNCHANGED nruns
    /\ UNCHANGED <<language, threshold, audio_queue, emitted, temp_files,
                   n_captured, appended, script>>

\* MainWindow.update_language -> set_language
SetLanguage(lang) ==
    /\ ui_left > 0
    /\ lang # language
    /\ ui_left' = ui_left - 1
    /\ language' = lang
    /\ UNCHANGED <<is_running, threshold, audio_queue, toggle_button, run, nruns,
                   emitted, temp_files, n_captured, appended, script>>

\* MainWindow.update_threshold -> set_threshold
SetThreshold(v) ==
    /\ ui_left > 0
    /\ set_threshold_value(v) # threshold
    /\ ui_left' = ui_left - 1
    /\ threshold' = set_threshold_value(v)
    /\ UNCHANGED <<is_running, language, audio_queue, toggle_button, run, nruns,
                   emitted, temp_files, n_captured, appended, script>>

(* ---------------- audio engine thread ---------------- *)

\* AudioProcessor.audio_callback, invoked while run r's InputStream is open
AudioCallback(r) ==
    /\ run[r].stream
    /\ n_captured < DeviceFrames(script)
    /\ Len(audio_queue) < MaxQueue
    /\ n_captured' = n_captured + 1
    /\ audio_queue' = QueuePut(audio_queue, [seq |-> n_captured + 1, run |-> r])
    /\ UNCHANGED <<is_running, language, threshold, toggle_button, run, nruns,
                   emitted, temp_files, appended, script, ui_left>>

(* ---------------- capture thread: TranscriptionThread.run ---------------- *)

\* run() line 66: self.is_running = True
RunBegin(r) ==
    /\ run[r].pc = "starting"
    /\ is_running' = TRUE
    /\ run' = [run EXCEPT ![r].pc = "open"]
    /\ UNCHANGED <<language, threshold, audio_queue, toggle_button, nruns, emitted,
                   temp_files, n_captured, appended, script, ui_left>>

\* with sd.InputStream(...): the device opens; audio_buffer = [], silence_counter = 0
OpenStream(r) ==
    /\ run[r].pc = "open"
    /\ run' = [run EXCEPT ![r].pc = "loop", ![r].stream = TRUE,
                          ![r].audio_buffer = <<>>, ![r].silence_counter = 0]
    /\ emitted' = Emit(emitted, "Started listening...")
    /\ UNCHANGED <<is_running, language, threshold, audio_queue, toggle_button, nruns,
                   temp_files, n_captured, appended, script, ui_left>>

\* with sd.InputStream(...) raises: the outer except emits the error, then
\* "Stopped listening." is emitted and run() returns
OpenFail(r) ==
    /\ run[r].pc = "open"
    /\ run' = [run EXCEPT ![r] = RunDone]
    /\ emitted' = Emit(Emit(emitted, "Audio system error"), "Stopped listening.")
    /\ UNCHANGED <<is_running, language, threshold, audio_queue, toggle_button, nruns,
                   temp_files, n_captured, appended, script, ui_left>>

LoopCondition_Forever == TRUE
\* while self.is_running
LoopCondition == is_running

\* The loop test; when it fails the with block closes the stream,
\* "Stopped listening." is emitted and run() returns
LoopTest(r) ==
    /\ run[r].pc = "loop"
    /\ IF LoopCondition
       THEN /\ run' = [run EXCEPT ![r].pc = "get"]
            /\ UNCHANGED emitted
       ELSE /\ run' = [run EXCEPT ![r] = RunDone]
            /\ emitted' = Emit(emitted, "Stopped listening.")
    /\ UNCHANGED <<is_running, language, threshold, audio_queue, toggle_button, nruns,
                   temp_files, n_captured, appended, script, ui_left>>

\* A stop() that arrived during this queue.get has now seen the get return
GetReturned(rr) == IF rr.stop_phase = "in_get" THEN "returned" ELSE rr.stop_phase

\* audio_queue.get(timeout=1) returns a frame
GetFrame(r) ==
    /\ run[r].pc = "get"
    /\ audio_queue # <<>>
    /\ run' = [run EXCEPT ![r].pc = "classify", ![r].audio_chunk = Head(audio_queue),
                          ![r].stop_phase = GetReturned(run[r])]
    /\ audio_queue' = Tail(audio_queue)
    /\ UNCHANGED <<is_running, language, threshold, toggle_button, nruns, emitted,
                   temp_files, n_captured, appended, script, ui_left>>

\* audio_queue.get(timeout=1) raises queue.Empty: continue
GetTimeout(r) ==
    /\ run[r].pc = "get"
    /\ audio_queue = <<>>
    /\ run' = [run EXCEPT ![r].pc = "loop", ![r].stop_phase = GetReturned(run[r])]
    /\ UNCHANGED <<is_running, language, threshold, audio_queue, toggle_button, nruns,
                   emitted, temp_files, n_captured, appended, script, ui_left>>

CurrentThreshold_Cached == InitialThreshold
\* self.threshold as read at the is_silent call
CurrentThreshold == threshold

NextSilenceCounter_NoRestart(counter, peak, thr) ==
    IF is_silent(peak, thr) THEN counter + 1 ELSE counter

\* silence_counter after a frame of the given peak
NextSilenceCounter(counter, peak, thr) ==
    IF is_silent(peak, thr) THEN counter + 1 ELSE 0

\* Lines 85-99 and 127-129: classify the frame, append it, test completion;
\* a complete buffer of more than two frames goes on to save_audio, a complete
\* shorter one is reset at once
Classify(r) ==
    /\ run[r].pc = "classify"
    /\ LET counter == NextSilenceCounter(run[r].silence_counter,
                                         Peak(run[r].audio_chunk), CurrentThreshold)
           buffer == Append(run[r].audio_buffer, run[r].audio_chunk)
       IN  /\ appended' = Append(appended, run[r].audio_chunk)
           /\ IF IsComplete(counter, buffer)
              THEN IF Len(buffer) > MinBufferLen
                   THEN run' = [run EXCEPT ![r].pc = "save", ![r].audio_chunk = NoFrame,
                                           ![r].audio_buffer = buffer,
                                           ![r].silence_counter = counter]
                   ELSE run' = [run EXCEPT ![r].pc = "loop", ![r].audio_chunk = NoFrame,
                                           ![r].audio_buffer = <<>>,
                                           ![r].silence_counter = 0]
              ELSE run' = [run EXCEPT ![r].pc = "loop", ![r].audio_chunk = NoFrame,
                                      ![r].audio_buffer = buffer,
                                      ![r].silence_counter = counter]
    /\ UNCHANGED <<is_running, language, threshold, audio_queue, toggle_button, nruns,
                   emitted, temp_files, n_captured, script, ui_left>>

SaveOutcomes == {"ok", "raise_before_create", "raise_after_create"}

\* Lines 101-109: the temporary file is named and save_audio writes it.
\* wave.open creates the file before any frame is written, so a failure leaves
\* either no file or a partial one; the exception reaches the handler of line
\* 133, which emits "Processing error" and goes on with the loop.
SaveAudio(r, outcome) ==
    /\ run[r].pc = "save"
    /\ CASE outcome = "ok" ->
              /\ temp_files' = temp_files \cup {Timestamp}
              /\ run' = [run EXCEPT ![r].pc = "call", ![r].temp_file = Timestamp]
              /\ UNCHANGED emitted
         [] outcome = "raise_after_create" ->
              /\ temp_files' = temp_files \cup {Timestamp}
              /\ run' = [run EXCEPT ![r].pc = "loop"]
              /\ emitted' = Emit(emitted, "Processing error")
         [] outcome = "raise_before_create" ->
              /\ run' = [run EXCEPT ![r].pc = "loop"]
              /\ emitted' = Emit(emitted, "Processing error")
              /\ UNCHANGED temp_files
    /\ UNCHANGED <<is_running, language, threshold, audio_queue, toggle_button, nruns,
                   n_captured, appended, script, ui_left>>

CurrentLanguage_Cached == "en"
\* self.language as read when the backend is called
CurrentLanguage == language

\* Lines 113-118: the file is opened and openai.Audio.transcribe is called
CallBackend(r) ==
    /\ run[r].pc = "call"
    /\ run' = [run EXCEPT ![r].pc = "backend", ![r].call_language = CurrentLanguage]
    /\ UNCHANGED <<is_running, language, threshold, audio_queue, toggle_button, nruns,
                   emitted, temp_files, n_captured, appended, script, ui_left>>

Responses == {"text", "empty", "raise"}

\* The backend call returns text, returns no text, or raises
BackendReturn(r, resp) ==
    /\ run[r].pc = "backend"
    /\ run' = [run EXCEPT ![r].pc = "handle", ![r].response = resp]
    /\ UNCHANGED <<is_running, language, threshold, audio_queue, toggle_button, nruns,
                   emitted, temp_files, n_captured, appended, script, ui_left>>

EmitResponse_Swallow(e, resp) ==
    CASE resp = "text" -> Emit(e, "text")
      [] OTHER -> e

\* What lines 119-122 emit for a response
EmitResponse(e, resp) ==
    CASE resp = "text" -> Emit(e, "text")
      [] resp = "raise" -> Emit(e, "Transcription error")
      [] OTHER -> e

\* Lines 119-129: emit the text or the error, os.remove(temp_file), reset
HandleResponse(r) ==
    /\ run[r].pc = "handle"
    /\ emitted' = EmitResponse(emitted, run[r].response)
    /\ temp_files' = temp_files \ {run[r].temp_file}
    /\ run' = [run EXCEPT ![r].pc = "loop", ![r].audio_buffer = <<>>,
                          ![r].silence_counter = 0, ![r].temp_file = NoFile,
                          ![r].call_language = "", ![r].response = ""]
    /\ UNCHANGED <<is_running, language, threshold, audio_queue, toggle_button, nruns,
                   n_captured, appended, script, ui_left>>

\* One step of run() in execution r
ThreadStep(r) ==
    \/ RunBegin(r)
    \/ OpenStream(r)
    \/ OpenFail(r)
    \/ LoopTest(r)
    \/ GetFrame(r)
    \/ GetTimeout(r)
    \/ Classify(r)
    \/ \E outcome \in SaveOutcomes : SaveAudio(r, outcome)
    \/ CallBackend(r)
    \/ \E resp \in Responses : BackendReturn(r, resp)
    \/ HandleResponse(r)

\* One invocation of the device callback
DeviceStep == \E r \in Runs : AudioCallback(r)

\* One step of the capture thread
CaptureStep == \E r \in Runs : ThreadStep(r)

Next ==
    \/ Toggle
    \/ \E lang \in Languages : SetLanguage(lang)
    \/ \E v \in UiValues : SetThreshold(v)
    \/ DeviceStep
    \/ CaptureStep

Spec == Init /\ [][Next]_vars

\* The capture thread is scheduled fairly, and a backend call in progress
\* returns (BackendReturn is a step of ThreadStep).
FairSpec == Spec /\ \A r \in Runs : WF_vars(ThreadStep(r))

\* The accumulator under a session that is configured and then only started:
\* the threshold is one that set_threshold has stored before the start click,
\* the only GUI event left is one click, and the device delivers one of the
\* AccScripts.
AccInit ==
    /\ is_running = FALSE
    /\ language = "en"
    /\ threshold \in {set_threshold_value(v) : v \in UiValues}
    /\ audio_queue = <<>>
    /\ toggle_button = "Start Transcription"
    /\ run = [r \in Runs |-> RunInit]
    /\ nruns = 0
    /\ emitted = [k \in EventKinds |-> 0]
    /\ temp_files = {}
    /\ n_captured = 0
    /\ appended = <<>>
    /\ script \in AccScripts
    /\ ui_left = 1

AccSpec == AccInit /\ [][Next]_vars

\* The threshold control alone: every value of the spin box
ThresholdNext == \E v \in UiRange : SetThreshold(v)

ThresholdSpec == Init /\ [][ThresholdNext]_vars

(* ---------------- properties ---------------- *)

\* run() executions in progress, and those holding an open InputStream
Executing == {r \in Runs : run[r].pc \in ActivePc}
Streaming == {r \in Runs : run[r].stream}

\* C1: the frame queue never holds more than a fixed capacity, in particular
\* while the capture loop is inside a backend call: a frame pushed on a full
\* queue is dropped.  audio_queue is queue.Queue() without maxsize and put()
\* never drops, so every capacity below the lead the audio engine takes is
\* exceeded; the engine's lead is cut off at MaxQueue here, and the capacity
\* stated is the one just below it.
C1_QueueBounded ==
    (\E r \in Runs : run[r].pc = "backend") => Len(audio_queue) <= MaxQueue - 1

\* C2: at most one execution of run() is in progress, and at most one
\* InputStream is open, in every reachable state.
C2_OneCaptureLoop ==
    /\ Cardinality(Executing) <= 1
    /\ Cardinality(Streaming) <= 1

\* C2 witness: a start click (the button reads "Stop Transcription") arrived
\* after a stop (is_running is FALSE) while the previous loop still holds the
\* stream.
C2_StartBeforeExit ==
    \E r \in Runs :
        /\ run[r].stream
        /\ ~is_running
        /\ toggle_button = "Stop Transcription"

\* C3: the step in which run() ends through the "Audio system error" path
\* leaves is_running FALSE.
C3_IdleAfterDeviceError ==
    [][\A r \in Runs :
         (run[r].pc = "open" /\ run'[r].pc = "done") => ~is_running']_vars

\* C4: whenever stop has been requested while run r is Listening (its stream
\* is open and is_running is FALSE), run r eventually returns with the stream
\* closed and "Stopped listening." emitted for it (runs are sequential, so
\* the r-th run's event is the r-th "Stopped listening.").
C4_StopLeadsToExit ==
    \A r \in Runs :
        (run[r].stream /\ ~is_running)
            ~> (/\ run[r].pc = "done"
                /\ ~run[r].stream
                /\ emitted["Stopped listening."] >= r)

\* C4 witness: a run that dispatched a segment was stopped and has returned.
C4_StoppedAfterDispatch ==
    /\ run[1].pc = "done"
    /\ ~is_running
    /\ emitted["text"] = 1
    /\ emitted["Stopped listening."] = 1
    /\ emitted["Audio system error"] = 0

\* C5: once a queue.get during which stop() arrived has returned, the loop
\* exits without a backend call in flight and without a further queue.get.
C5_StopDuringGet ==
    \A r \in Runs :
        run[r].stop_phase = "returned" => run[r].pc \notin {"backend", "get"}

\* C6: while a backend call is in flight and a frame is waiting in the queue,
\* the capture loop can pull it.
C6_IntakeDuringBackend ==
    \A r \in Runs :
        (run[r].pc = "backend" /\ audio_queue # <<>>) => ENABLED GetFrame(r)

\* The frame a capture loop has pulled and not yet appended
InHand ==
    IF \E r \in Runs : run[r].pc = "classify"
    THEN <<run[CHOOSE r \in Runs : run[r].pc = "classify"].audio_chunk>>
    ELSE <<>>

\* The last n elements of a sequence
Suffix(q, n) == SubSeq(q, Len(q) - n + 1, Len(q))

\* C7: the frames appended so far, the frame in hand and the frames waiting
\* in the queue are, in this order, exactly the frames the callback pushed
\* (capture sequence numbers 1..n_captured, each once); every audio_buffer is
\* the tail of what was appended.
C7_FifoExactlyOnce ==
    LET all == appended \o InHand \o audio_queue
    IN  /\ Len(all) = n_captured
        /\ \A i \in 1..Len(all) : all[i].seq = i
        /\ \A r \in Runs :
              /\ Len(run[r].audio_buffer) <= Len(appended)
              /\ run[r].audio_buffer = Suffix(appended, Len(run[r].audio_buffer))

\* C7 witness: language and threshold were both changed while frames were
\* in the queue and in the buffer, and every frame has been appended since.
C7_AllAppendedUnderReconfig ==
    /\ Len(appended) = DeviceFrames(script)
    /\ language # "en"
    /\ threshold # InitialThreshold
    /\ emitted["text"] = 1

\* The step of run r that handles a response
Handles(r) == run[r].pc = "handle" /\ run'[r].pc # "handle"

\* C8: the step that handles a backend failure emits exactly one event, a
\* "Transcription error", leaves the loop running at its test with an empty
\* audio_buffer and silence_counter 0; nothing else is emitted for the
\* segment between a successful save_audio and that step.
C8_BackendFailure ==
    [][\A r \in Runs :
         /\ (Handles(r) /\ run[r].response = "raise") =>
                /\ emitted' = Emit(emitted, "Transcription error")
                /\ run'[r].pc = "loop"
                /\ run'[r].audio_buffer = <<>>
                /\ run'[r].silence_counter = 0
         /\ (run[r].pc \in {"call", "backend"} \/ run'[r].pc = "call") =>
                emitted' = emitted]_vars

\* C8 witness: after a backend failure the loop went on and appended a frame.
C8_ContinuedAfterFailure ==
    \E r \in Runs :
        /\ emitted["Transcription error"] = 1
        /\ emitted["Processing error"] = 0
        /\ Len(run[r].audio_buffer) = 1
        /\ run[r].pc = "loop"

\* C9: no temporary file exists when the capture loop pulls a frame.
C9_TempFilesRemoved ==
    \A r \in Runs : run[r].pc = "get" => temp_files = {}

\* silence_counter as the step that classifies run r's frame in hand leaves
\* it when the frame is classified with threshold thr
CounterAfter(r, thr) ==
    LET counter == NextSilenceCounter(run[r].silence_counter,
                                      Peak(run[r].audio_chunk), thr)
        buffer == Append(run[r].audio_buffer, run[r].audio_chunk)
    IN  IF IsComplete(counter, buffer) /\ Len(buffer) <= MinBufferLen
        THEN 0
        ELSE counter

\* C10: the step that classifies a frame uses the threshold stored at that
\* step, and the step that calls the backend passes the language stored at
\* that step.
C10_CurrentConfig ==
    [][\A r \in Runs :
         /\ (run[r].pc = "classify" /\ run'[r].pc # "classify") =>
                run'[r].silence_counter = CounterAfter(r, threshold)
         /\ (run[r].pc = "call" /\ run'[r].pc = "backend") =>
                run'[r].call_language = language]_vars

\* C10 witness: after a start, a set_threshold and a set_language, a backend
\* call is in flight with the language set, on frames classified with the
\* threshold set.
C10_ReconfiguredDispatch ==
    \E r \in Runs :
        /\ run[r].pc = "backend"
        /\ run[r].call_language = "ja"
        /\ threshold = set_threshold_value(100)
        /\ ui_left = 0

\* C11: the threshold of a fresh TranscriptionThread is the one of the spin
\* box's default value, and for every v in 0..100 a set_threshold(v) step
\* stores exactly v/5000 (in millionths: threshold * 5000 = v * 1000000; so
\* 50 stores 0.01, 0 stores 0.0 and 100 stores 0.02).
C11_ThresholdScaling ==
    /\ threshold * ThresholdDivisor = DefaultUiValue * Million
    /\ [][\A v \in UiRange :
            SetThreshold(v) => threshold' * ThresholdDivisor = v * Million]_vars

\* C11 witness: set_threshold(100) has stored 0.02 after another value.
C11_SetToHundred ==
    /\ threshold * ThresholdDivisor = 100 * Million
    /\ ui_left = MaxUiEvents - 2

\* C12: no audio_buffer ever holds more than the maximum of 50 frames.
\* Stated with an allowance of one for the frame whose append makes the
\* completion test (len > 50) hold: even so the bound fails.
C12_BufferAtMostCap ==
    \A r \in Runs : Len(run[r].audio_buffer) <= MaxBufferLen + 1

\* The capture loop is between frames: at its test, pulling, or classifying
BetweenFrames(r) == run[r].pc \in {"loop", "get", "classify"}

\* C13: on a continuous non-silent stream the 51st frame completes the
\* segment and the buffer is then cleared: whenever the loop is between
\* frames the buffer holds fewer than 51.
C13_CapEnforced ==
    script = "loud" =>
        \A r \in Runs :
            BetweenFrames(r) => Len(run[r].audio_buffer) <= MaxBufferLen

\* Run r is handing over the first segment of the 40 + 35 scenario: the
\* default threshold, a buffer that starts with frame 1, and no earlier
\* attempt to save it.
ScenarioSegment(r) ==
    /\ script = "scenario"
    /\ threshold = InitialThreshold
    /\ run[r].pc \in {"save", "call", "backend", "handle"}
    /\ run[r].audio_buffer[1].seq = 1
    /\ emitted["Processing error"] = 0

\* The frames of a buffer that peak below / not below the threshold
SilentIn(buffer, thr) == {i \in 1..Len(buffer) : is_silent(Peak(buffer[i]), thr)}
LoudIn(buffer, thr) == {i \in 1..Len(buffer) : ~is_silent(Peak(buffer[i]), thr)}

\* C14 as stated: the scenario's segment is completed at frame 50 and holds
\* exactly 50 frames, 40 non-silent and 10 silent.
C14_ScenarioFiftyFrames ==
    \A r \in Runs :
        ScenarioSegment(r) =>
            /\ Len(run[r].audio_buffer) = MaxBufferLen
            /\ Cardinality(LoudIn(run[r].audio_buffer, threshold)) = 40
            /\ Cardinality(SilentIn(run[r].audio_buffer, threshold)) = 10

\* C14 as amended: in the scenario no segment is handed over before frame 51
\* has been appended; the segment is completed by the cap (len > 50) and not
\* by the silence run (11 frames, below the limit), and it holds exactly the
\* frames 1..51, 40 non-silent and 11 silent.
C14_ScenarioFiftyOneFrames ==
    \A r \in Runs :
        /\ (script = "scenario" /\ threshold = InitialThreshold
               /\ Len(appended) <= MaxBufferLen) => BetweenFrames(r) \/ run[r].pc \notin ActivePc
                                                    \/ run[r].pc \in {"starting", "open"}
        /\ ScenarioSegment(r) =>
              /\ Len(run[r].audio_buffer) = MaxBufferLen + 1
              /\ \A i \in 1..Len(run[r].audio_buffer) : run[r].audio_buffer[i].seq = i
              /\ Cardinality(LoudIn(run[r].audio_buffer, threshold)) = 40
              /\ Cardinality(SilentIn(run[r].audio_buffer, threshold)) = 11
              /\ run[r].silence_counter = 11
              /\ run[r].silence_counter * chunk_size <= silence_limit * sample_rate

\* C14 witness: the scenario's 51-frame segment is with the backend.
C14_ScenarioDispatched ==
    \E r \in Runs :
        /\ ScenarioSegment(r)
        /\ run[r].pc = "backend"
        /\ Len(run[r].audio_buffer) = MaxBufferLen + 1

\* The length of the run of consecutive silent frames at the end of a buffer
TrailingSilent(buffer, thr) ==
    LET n == Len(buffer)
        silent == SilentIn(buffer, thr)
    IN  CHOOSE k \in 0..n :
            /\ \A i \in (n - k + 1)..n : i \in silent
            /\ k = n \/ (n - k) \notin silent

\* C15: with the threshold fixed for the run, silence_counter is the length
\* of the run of trailing silent frames (a non-silent frame restarts it at 0),
\* and a buffer completed below the cap ends with a silent run that has
\* reached silence_limit * sample_rate / chunk_size = 31.25, i.e. 32 frames.
C15_SilenceCompletion ==
    \A r \in Runs :
        LET buffer == run[r].audio_buffer
        IN  /\ run[r].silence_counter = TrailingSilent(buffer, threshold)
            /\ (run[r].pc = "save" /\ Len(buffer) <= MaxBufferLen) =>
                  /\ TrailingSilent(buffer, threshold) * chunk_size
                        >= silence_limit * sample_rate
                  /\ TrailingSilent(buffer, threshold) >= 32

\* C15 witness: after the non-silent frame 11, 32 silent frames complete a
\* 43-frame segment.
C15_CompletedAfterRestart ==
    \E r \in Runs :
        /\ script = "blip"
        /\ run[r].pc = "save"
        /\ Len(run[r].audio_buffer) = 43
        /\ run[r].silence_counter = 32

\* C16: every pass through a segment boundary ends with audio_buffer and
\* silence_counter both reset: when the loop comes back to its test from the
\* dispatch of a completed buffer, the buffer is empty and the counter is 0.
C16_ResetTogether ==
    [][\A r \in Runs :
         (run[r].pc \in {"save", "handle"} /\ run'[r].pc = "loop") =>
             /\ run'[r].audio_buffer = <<>>
             /\ run'[r].silence_counter = 0]_vars

\* The least raw peak that is not silent under a threshold: the least p with
\* p/32768 >= thr/1000000
LeastLoudPeak(thr) == (thr * FullScale + Million - 1) \div Million

\* C17: the step that classifies a frame counts it as silent iff its peak is
\* strictly below the threshold (a peak equal to it restarts the counter);
\* with threshold 0.0 the counter is 0 in every state.
C17_StrictSilence ==
    /\ [](threshold = 0 => \A r \in Runs : run[r].silence_counter = 0)
    /\ [][\A r \in Runs :
            (run[r].pc = "classify" /\ run'[r].pc # "classify") =>
                run'[r].silence_counter =
                    IF Peak(run[r].audio_chunk) < LeastLoudPeak(threshold)
                    THEN run[r].silence_counter + 1
                    ELSE 0]_vars

\* C17 witness: under threshold 0.0 a stream of digital silence (peak 0, equal
\* to the threshold) filled the buffer to the cap with the counter at 0.
C17_ZeroThresholdNeverSilent ==
    \E r \in Runs :
        /\ threshold = 0
        /\ script = "blip"
        /\ run[r].pc = "save"
        /\ Len(run[r].audio_buffer) = MaxBufferLen + 1
        /\ run[r].silence_counter = 0

\* C18: silence_counter never exceeds the buffer length; a buffer that goes
\* to dispatch holds more than 2 frames, and no classifying step takes the
\* discard branch: it always leaves the buffer one frame longer.
C18_NeverDiscarded ==
    /\ [](\A r \in Runs :
            /\ run[r].silence_counter <= Len(run[r].audio_buffer)
            /\ run[r].pc = "save" => Len(run[r].audio_buffer) > MinBufferLen)
    /\ [][\A r \in Runs :
            (run[r].pc = "classify" /\ run'[r].pc # "classify") =>
                /\ run'[r].pc \in {"loop", "save"}
                /\ run'[r].audio_buffer =
                       Append(run[r].audio_buffer, run[r].audio_chunk)]_vars

\* C18 witness: the shortest completion, 32 silent frames from the start:
\* the counter equals the buffer length.
C18_ShortestCompletion ==
    \E r \in Runs :
        /\ run[r].pc = "save"
        /\ run[r].silence_counter = Len(run[r].audio_buffer)
        /\ Len(run[r].audio_buffer) = 32

\* C19: every frame of a segment that is with the backend was captured by the
\* stream of the run that dispatches it.
C19_NoFrameAcrossRuns ==
    \A r \in Runs :
        run[r].pc = "backend" =>
            \A i \in 1..Len(run[r].audio_buffer) : run[r].audio_buffer[i].run = r

\* The capture thread has settled: no run() is about to set is_running or to
\* open the stream, and no loop is still to observe a stop.
Settled ==
    /\ \A r \in Runs : run[r].pc \notin {"starting", "open"}
    /\ Streaming # {} => is_running

\* C20: once the thread has settled, the button reads "Stop Transcription"
\* exactly when a capture loop is running.
C20_ButtonAgrees ==
    Settled => (toggle_button = "Stop Transcription" <=> Streaming # {})

====
